---- MODULE Spec2Model ----
(***************************************************************************)
(* A model of the getprose crate (src/src/lib.rs): Locale parsing, the     *)
(* FormatBuilder, the lazily initialised CATALOGS registry with the        *)
(* gettext family of lookups, and format_f64.                              *)
(*                                                                         *)
(* Text is modelled as a sequence of one-character strings, so that        *)
(* scanning, substitution and glyph replacement are computed character by  *)
(* character as the code (and the libraries it calls) compute them.        *)
(***************************************************************************)
EXTENDS Integers, Sequences, FiniteSets, TLC

VARIABLES
    \* FormatBuilder (lib.rs 211-216) and the result of the last call on it
    tpl, args, fop, fout,
    \* for each name, the value most recently handed to arg or args under it
    given,
    \* impl FromStr for Locale: the from_str calls made so far and their results
    parseLog,
    \* format_f64 (lib.rs 276-282): its arguments, whether it has returned, and
    \* the text it returned
    value, precision, nlocale, ndone, nout,
    \* CATALOGS (lib.rs 48): the OnceCell and the threads that use it
    cell,      \* the OnceCell: empty, being initialised (running), or full
    corrupt,   \* the locales whose embedded .mo file Catalog::parse rejects
    loadIdx,   \* the next variant of Locale::iter() the initialising closure loads
    pc,        \* each thread: idle, init (running the closure), panicked
    req,       \* each thread's current or last call
    ret        \* what each thread's last call returned

fmtVars == <<tpl, args, fop, fout, given>>
locVars == <<parseLog>>
numVars == <<value, precision, nlocale, ndone, nout>>
catVars == <<cell, corrupt, loadIdx, pc, req, ret>>
vars == <<tpl, args, fop, fout, given, parseLog, value, precision, nlocale, ndone, nout,
          cell, corrupt, loadIdx, pc, req, ret>>

----------------------------------------------------------------------------
(* Bounds of the model *)

\* a template is the concatenation of at most MaxParts pieces
MaxParts == 3
\* at most MaxParses from_str calls are recorded
MaxParses == 3
\* format_f64 is given precisions 0..MaxPrecision
MaxPrecision == 5
\* an f64 is sign * mant / 2^exp; the model draws exp from 0..MaxExp and mant
\* from 0..MaxMant and from LargeMants
MaxExp == 8
MaxMant == 33

----------------------------------------------------------------------------
(* Text helpers *)

RECURSIVE Flatten(_)
\* concatenation of a sequence of texts
Flatten(ss) == IF ss = <<>> THEN <<>> ELSE Head(ss) \o Flatten(Tail(ss))

\* the texts made of at most n pieces drawn from P
RECURSIVE Concats(_, _)
Concats(P, n) ==
    IF n = 0 THEN {<<>>}
    ELSE LET shorter == Concats(P, n - 1)
         IN shorter \cup {s \o p : s \in shorter, p \in P}

DigitChars == <<"0", "1", "2", "3", "4", "5", "6", "7", "8", "9">>
DigitSet == {DigitChars[i] : i \in 1..10}

\* the decimal digits of a natural number, without leading zeros
RECURSIVE DigitText(_)
DigitText(n) ==
    IF n < 10 THEN <<DigitChars[n + 1]>>
    ELSE DigitText(n \div 10) \o <<DigitChars[(n % 10) + 1]>>

----------------------------------------------------------------------------
(* Locale (lib.rs 63-74) *)

Locale == {"de_DE", "en_GB", "es_ES", "fr_FR", "it_IT", "pt_PT", "ru_RU"}

\* Locale::iter() (strum EnumIter): the variants in declaration order
LocaleIter == <<"de_DE", "en_GB", "es_ES", "fr_FR", "it_IT", "pt_PT", "ru_RU">>

OkLocale(l) == [kind |-> "Ok", locale |-> l, rejected |-> ""]
UnknownLocaleError(s) == [kind |-> "UnknownLocaleError", locale |-> "", rejected |-> s]

\* a from_str that knows the full tags only
from_str_full_only(s) ==
    IF s \in Locale THEN OkLocale(s) ELSE UnknownLocaleError(s)

\* impl FromStr for Locale (lib.rs 191-202)
from_str(s) ==
    CASE s \in {"de_DE", "de"} -> OkLocale("de_DE")
      [] s \in {"en_GB", "en"} -> OkLocale("en_GB")
      [] s \in {"es_ES", "es"} -> OkLocale("es_ES")
      [] s \in {"fr_FR", "fr"} -> OkLocale("fr_FR")
      [] s \in {"it_IT", "it"} -> OkLocale("it_IT")
      [] s \in {"pt_PT", "pt"} -> OkLocale("pt_PT")
      [] s \in {"ru_RU", "ru"} -> OkLocale("ru_RU")
      [] OTHER -> UnknownLocaleError(s)

\* the strings handed to from_str: every full tag, every short code, and
\* strings that are neither (other case, other separator, padding, empty,
\* an unsupported language)
FullTags == Locale
ShortCodes == {"de", "en", "es", "fr", "it", "pt", "ru"}
OtherTags == {"", "DE", "de_de", "de-DE", "fr_FR ", "en_US", "nl", "deu"}
TagInputs == FullTags \cup ShortCodes \cup OtherTags

\* a caller parses one more tag
ParseTag(s) ==
    /\ s \notin DOMAIN parseLog
    /\ Cardinality(DOMAIN parseLog) < MaxParses
    /\ parseLog' = [t \in DOMAIN parseLog \cup {s} |->
                       IF t = s THEN from_str(s) ELSE parseLog[t]]
    /\ UNCHANGED <<fmtVars, numVars, catVars>>

----------------------------------------------------------------------------
(* FormatBuilder (lib.rs 210-266) *)

WordChars == {"a", "b", "0"}
Digits == {"0"}

\* the pieces templates are made of: named, positional and indexed
\* placeholders, single braces and plain word characters
Pieces == { <<"{", "a", "}">>, <<"{", "b", "}">>, <<"{", "0", "}">>,
            <<"{">>, <<"}">>, <<"a">>, <<"-">> }
Templates == Concats(Pieces, MaxParts)

Keys == { <<"a">>, <<"b">>, <<"0">> }

\* a value handed to arg or args: any S: ToString, here a &str or an i32
StrValue(s) == [type |-> "str", text |-> s, num |-> 0]
IntValue(n) == [type |-> "i32", text |-> <<>>, num |-> n]

\* the values handed to the builder whose template is formatted
Values == { StrValue(<<"X">>), StrValue(<<"{", "b", "}">>) }

\* the values handed to the builder under SpecBuilder: texts and integers,
\* two of which (the text 7 and the number 7) have the same string
StrValues == { StrValue(<<"X">>), StrValue(<<"7">>) }
IntValues == { IntValue(7), IntValue(0 - 12) }
BuilderValues == StrValues \cup IntValues

\* ToString::to_string: a str is copied, an i32 is written in decimal with a
\* minus sign when it is negative
to_string(v) ==
    IF v.type = "str" THEN v.text
    ELSE IF v.num < 0 THEN <<"-">> \o DigitText(0 - v.num)
    ELSE DigitText(v.num)

NoResult == [kind |-> "None", val |-> <<>>, err |-> "", key |-> <<>>]
OkText(v) == [kind |-> "Ok", val |-> v, err |-> "", key |-> <<>>]
FmtErr(e, k) == [kind |-> "Err", val |-> <<>>, err |-> e, key |-> k]

\* regex \w+ : the first index >= k of t that holds no word character
\* (Len(t) + 1 when the word runs to the end)
RECURSIVE WordEnd(_, _)
WordEnd(t, k) ==
    IF k > Len(t) \/ t[k] \notin WordChars THEN k ELSE WordEnd(t, k + 1)

\* whether the regex \{(\w+)?\} of SimpleCurlyFormat matches t at index i
MatchAt(t, i) ==
    /\ i <= Len(t)
    /\ t[i] = "{"
    /\ WordEnd(t, i + 1) <= Len(t)
    /\ t[WordEnd(t, i + 1)] = "}"

\* the start of the leftmost match at or after index i, 0 when there is none
RECURSIVE FindFrom(_, _)
FindFrom(t, i) ==
    IF i > Len(t) THEN 0
    ELSE IF MatchAt(t, i) THEN i
    ELSE FindFrom(t, i + 1)

\* str::parse::<usize>() succeeds on a key: it is made of decimal digits only
ParsesAsIndex(key) == key # <<>> /\ \A i \in 1..Len(key) : key[i] \in Digits

\* parse_position / parse_next of SimpleCurlyFormat: {} is the next positional
\* argument, {N} the argument at index N, {name} the named argument
Position(key) ==
    IF key = <<>> THEN "Auto"
    ELSE IF ParsesAsIndex(key) THEN "Index"
    ELSE "Key"

\* Format::format of dynfmt over a HashMap: the text before each match is
\* copied, the match is replaced by its argument; a HashMap has no indexed
\* access (ListRequired), a key it does not hold is MissingArg; the first
\* error ends the call.  The substituted text is not scanned again.
RECURSIVE FormatFrom(_, _, _, _)
FormatFrom(t, a, pos, buffer) ==
    LET m == FindFrom(t, pos) IN
    IF m = 0 THEN OkText(buffer \o SubSeq(t, pos, Len(t)))
    ELSE LET e == WordEnd(t, m + 1)
             key == SubSeq(t, m + 1, e - 1)
         IN IF Position(key) # "Key" THEN FmtErr("ListRequired", key)
            ELSE IF key \notin DOMAIN a THEN FmtErr("MissingArg", key)
            ELSE FormatFrom(t, a, e + 1, buffer \o SubSeq(t, pos, m - 1) \o a[key])

\* a try_format that skips a placeholder it has no argument for
RECURSIVE LenientFormatFrom(_, _, _, _)
LenientFormatFrom(t, a, pos, buffer) ==
    LET m == FindFrom(t, pos) IN
    IF m = 0 THEN OkText(buffer \o SubSeq(t, pos, Len(t)))
    ELSE LET e == WordEnd(t, m + 1)
             key == SubSeq(t, m + 1, e - 1)
         IN IF Position(key) # "Key" \/ key \notin DOMAIN a
            THEN LenientFormatFrom(t, a, e + 1, buffer \o SubSeq(t, pos, e))
            ELSE LenientFormatFrom(t, a, e + 1,
                                   buffer \o SubSeq(t, pos, m - 1) \o a[key])

lenient_try_format(t, a) == LenientFormatFrom(t, a, 1, <<>>)

\* FormatBuilder::try_format (lib.rs 242-244)
try_format(t, a) == FormatFrom(t, a, 1, <<>>)

\* a noop_format that drops the template
empty_noop_format(t, a) == OkText(<<>>)

\* FormatBuilder::noop_format (lib.rs 247-250): NoopFormat has no argument
\* specifications, so the template is returned as it is
noop_format(t, a) == OkText(t)

\* FormatBuilder::format (lib.rs 234-239)
format(t, a) ==
    LET r == try_format(t, a) IN
    IF r.kind = "Ok" THEN r.val ELSE noop_format(t, a).val

\* ToFormat::to_format (lib.rs 260-265): a builder with no arguments
NoArgs == [k \in {} |-> <<>>]

\* an insert that keeps the value a key already has
insert_if_absent(a, k, v) ==
    [x \in DOMAIN a \cup {k} |-> IF x \in DOMAIN a THEN a[x] ELSE v]

\* HashMap::insert of one key
Insert(a, k, v) == [x \in DOMAIN a \cup {k} |-> IF x = k THEN v ELSE a[x]]

\* the pairs of a map in some iteration order
RECURSIVE Pairs(_)
Pairs(m) ==
    IF DOMAIN m = {} THEN <<>>
    ELSE LET k == CHOOSE x \in DOMAIN m : TRUE
         IN <<<<k, m[k]>>>> \o Pairs([x \in DOMAIN m \ {k} |-> m[x]])

\* HashMap::extend: every pair of the iterator is inserted, one after another
RECURSIVE Extend(_, _)
Extend(a, ps) ==
    IF ps = <<>> THEN a
    ELSE Extend(Insert(a, Head(ps)[1], Head(ps)[2]), Tail(ps))

\* the maps handed to args(): any map from some of the keys to values
ArgMaps == UNION { [D -> Values] : D \in SUBSET Keys }

\* the maps handed to args() under SpecBuilder: a HashMap<&str, S> holds
\* values of one type S
BuilderArgMaps ==
    UNION { [D -> VS] : D \in SUBSET Keys, VS \in {StrValues, IntValues} }

\* FormatBuilder::arg (lib.rs 220-223)
Arg(k, v) ==
    /\ fop' = "arg"
    /\ fout' = NoResult
    /\ given' = [x \in DOMAIN given \cup {k} |-> IF x = k THEN v ELSE given[x]]
    /\ args' = Insert(args, k, to_string(v))
    /\ UNCHANGED <<tpl, locVars, numVars, catVars>>

\* FormatBuilder::args (lib.rs 226-230)
Args(m) ==
    /\ fop' = "args"
    /\ fout' = NoResult
    /\ given' = [x \in DOMAIN given \cup DOMAIN m |->
                     IF x \in DOMAIN m THEN m[x] ELSE given[x]]
    /\ args' = LET ps == Pairs(m)
               IN Extend(args, [i \in 1..Len(ps) |->
                                   <<ps[i][1], to_string(ps[i][2])>>])
    /\ UNCHANGED <<tpl, locVars, numVars, catVars>>

\* a call of format(): the builder is borrowed, not changed
Format ==
    /\ fop' = "format"
    /\ fout' = OkText(format(tpl, args))
    /\ UNCHANGED <<tpl, args, given, locVars, numVars, catVars>>

\* a call of try_format()
TryFormat ==
    /\ fop' = "try_format"
    /\ fout' = try_format(tpl, args)
    /\ UNCHANGED <<tpl, args, given, locVars, numVars, catVars>>

----------------------------------------------------------------------------
(* format_f64 (lib.rs 273-282) *)

\* From<Locale> for num_format::Locale (lib.rs 160-172), with the decimal
\* and grouping glyphs of each num_format locale: U+00A0 is written NBSP and
\* U+202F is written NNBSP
nf_locale(l) ==
    CASE l = "de_DE" -> [name |-> "de", decimal |-> <<",">>, separator |-> <<".">>]
      [] l = "en_GB" -> [name |-> "en_GB", decimal |-> <<".">>, separator |-> <<",">>]
      [] l = "es_ES" -> [name |-> "es", decimal |-> <<",">>, separator |-> <<".">>]
      [] l = "fr_FR" -> [name |-> "fr", decimal |-> <<",">>, separator |-> <<"NNBSP">>]
      [] l = "it_IT" -> [name |-> "it", decimal |-> <<",">>, separator |-> <<".">>]
      [] l = "pt_PT" -> [name |-> "pt", decimal |-> <<",">>, separator |-> <<".">>]
      [] l = "ru_RU" -> [name |-> "ru", decimal |-> <<",">>, separator |-> <<"NBSP">>]

RECURSIVE Pow(_, _)
Pow(b, n) == IF n = 0 THEN 1 ELSE b * Pow(b, n - 1)

\* n written with exactly w digits (n < 10^w)
RECURSIVE Padded(_, _)
Padded(n, w) ==
    IF w = 0 THEN <<>> ELSE Padded(n \div 10, w - 1) \o <<DigitChars[(n % 10) + 1]>>

\* The magnitude mant / 2^exp rounded to p decimals as Rust's {:.p} rounds an
\* f64 (core::num::flt2dec, exact mode): the exact binary value is rounded to
\* the nearest decimal, and a value exactly halfway goes to the even digit.
\* The result is <<integer part, fraction in units of 10^-p>>.
Rounded(v, p) ==
    LET scale == Pow(2, v.exp)
        whole == v.mant \div scale
        frac == (v.mant % scale) * Pow(10, p)
        q == frac \div scale
        r == frac % scale
        last == IF p = 0 THEN whole ELSE q
        up == 2 * r > scale \/ (2 * r = scale /\ last % 2 = 1)
        q1 == IF up THEN q + 1 ELSE q
    IN IF q1 = Pow(10, p) THEN <<whole + 1, 0>> ELSE <<whole, q1>>

\* a fixed_text that prints no more fraction digits than the value needs
fixed_text_unpadded(v, p) ==
    LET n == Rounded(v, p)
    IN DigitText(n[1]) \o (IF p = 0 \/ n[2] = 0 THEN <<>> ELSE <<".">> \o Padded(n[2], p))

\* format!("{:.1$}", input.abs(), precision) as format_num calls it for the
\* type f: the integer digits, and for p > 0 a point and exactly p digits
fixed_text(v, p) ==
    LET n == Rounded(v, p)
    IN DigitText(n[1]) \o (IF p = 0 THEN <<>> ELSE <<".">> \o Padded(n[2], p))

\* the index of the first character of t that is no digit (Len(t) + 1 if none)
RECURSIVE FirstNonDigit(_, _)
FirstNonDigit(t, i) ==
    IF i > Len(t) \/ t[i] \notin DigitSet THEN i ELSE FirstNonDigit(t, i + 1)

\* format_num's group_value: a comma before every group of three digits,
\* counted from the right
RECURSIVE group_value(_)
group_value(digits) ==
    IF Len(digits) <= 3 THEN digits
    ELSE group_value(SubSeq(digits, 1, Len(digits) - 3))
            \o <<",">> \o SubSeq(digits, Len(digits) - 2, Len(digits))

\* value.parse::<f64>() == 0 of format_num: every digit of the text is 0
ParsesAsZero(t) == \A i \in 1..Len(t) : t[i] \in {"0", "."}

\* a sign rule that keeps the minus of every negative input
keeps_sign(v, text) == v.neg

\* format_num: a negative input (sign bit set, -0.0 included) whose formatted
\* text parses as zero is shown without its sign
value_is_negative(v, text) == v.neg /\ ~ParsesAsZero(text)

\* format_num!(",.{p}f", f): the fixed text of the magnitude, its integer
\* digits grouped, the sign in front
format_num(v, p) ==
    LET text == fixed_text(v, p)
        cut == FirstNonDigit(text, 1)
        int_part == SubSeq(text, 1, cut - 1)
        decimal_part == SubSeq(text, cut, Len(text))
    IN (IF value_is_negative(v, text) THEN <<"-">> ELSE <<>>)
          \o group_value(int_part) \o decimal_part

\* str::replace(from, to): every occurrence of the character is replaced
Replace(t, from, to) ==
    Flatten([i \in 1..Len(t) |-> IF t[i] = from THEN to ELSE <<t[i]>>])

\* a format_f64 that replaces the comma and then the point, with no
\* intermediate glyph
format_f64_sequential(v, p, l) ==
    Replace(Replace(format_num(v, p), ",", nf_locale(l).separator),
            ".", nf_locale(l).decimal)

\* format_f64 (lib.rs 276-282)
format_f64(v, p, l) ==
    Replace(Replace(Replace(format_num(v, p), ",", <<"!">>),
                    ".", nf_locale(l).decimal),
            "!", nf_locale(l).separator)

\* mantissas that reach the grouping of the integer part, also by a carry
LargeMants == {999, 1000, 1234, 1999, 7996, 9999, 12345, 999999, 1000000,
               1234567, 1999999}

F64Inputs ==
    [neg : BOOLEAN, mant : (0..MaxMant) \cup LargeMants, exp : 0..MaxExp]

\* a call of format_f64
FormatF64 ==
    /\ ~ndone
    /\ ndone' = TRUE
    /\ nout' = format_f64(value, precision, nlocale)
    /\ UNCHANGED <<value, precision, nlocale, fmtVars, locVars, catVars>>

----------------------------------------------------------------------------
(* CATALOGS, init_catalogs, get_catalog and the gettext family             *)
(* (lib.rs 47-58, 76-158)                                                  *)

Threads == {"t1", "t2"}

LookupOps == {"gettext", "ngettext", "pgettext", "npgettext"}

\* the calls of the gettext family: a locale, and for the plural forms a count
Counts == {1, 2}
LookupCalls ==
    [op : {"gettext", "pgettext"}, locale : Locale, n : {0}, locales : {{}}]
        \cup [op : {"ngettext", "npgettext"}, locale : Locale, n : Counts, locales : {{}}]

\* the locales arguments of init_catalogs
InitLocaleSets == { {}, {"de_DE"}, {"en_GB", "ru_RU"}, Locale }
InitCalls == [op : {"init_catalogs"}, locale : {""}, n : {0}, locales : InitLocaleSets]

NoCall == [op |-> "none", locale |-> "", n |-> 0, locales |-> {}]

\* what a call returns: a text and the catalog it comes from, Ok(()), or a
\* panic and the locale it names
NoCatalog == [file |-> "none", locale |-> ""]
NoReturn == [kind |-> "None", from |-> NoCatalog, ctx |-> "", form |-> 0]
OkUnit == [kind |-> "OkUnit", from |-> NoCatalog, ctx |-> "", form |-> 0]
Str(from, ctx, form) == [kind |-> "Str", from |-> from, ctx |-> ctx, form |-> form]
Panic(why, l) ==
    [kind |-> why, from |-> [file |-> "none", locale |-> l], ctx |-> "", form |-> 0]

\* Catalog::empty()
EmptyCatalog == [file |-> "empty", locale |-> ""]
\* the catalog parsed from a locale's .mo file
ParsedCatalog(dir, l) == [file |-> dir, locale |-> l]

\* the builds considered: every embedded .mo file parses, or the files of
\* these locales do not (de_DE has no file)
CorruptSets == { {}, {"en_GB"}, {"ru_RU"}, {"fr_FR", "pt_PT"} }

\* a load_catalog that takes an unreadable file for an empty catalog
load_catalog_lenient(l) ==
    IF l = "de_DE" \/ l \in corrupt
    THEN [ok |-> TRUE, catalog |-> EmptyCatalog]
    ELSE [ok |-> TRUE, catalog |-> ParsedCatalog("OUT_DIR", l)]

\* Locale::load_catalog (lib.rs 103-125): de_DE is the empty catalog, every
\* other locale's catalog is parsed from the .mo file embedded at build time
load_catalog(l) ==
    IF l = "de_DE" THEN [ok |-> TRUE, catalog |-> EmptyCatalog]
    ELSE IF l \in corrupt THEN [ok |-> FALSE, catalog |-> EmptyCatalog]
    ELSE [ok |-> TRUE, catalog |-> ParsedCatalog("OUT_DIR", l)]

\* the OnceCell
EmptyCell == [state |-> "empty", map |-> <<>>, by |-> "none"]
RunningCell == [state |-> "running", map |-> <<>>, by |-> "none"]
FullCell(m, by) == [state |-> "full", map |-> m, by |-> by]

\* a set that stores the value whatever the cell holds
cell_set_overwriting(c, m) == FullCell(m, "set")

\* OnceCell::set: the value is stored if the cell is empty and dropped if
\* the cell is full
cell_set(c, m) == IF c.state = "empty" THEN FullCell(m, "set") ELSE c

\* the map the closure of get_or_init collects: every variant of Locale::iter()
\* with its loaded catalog (lib.rs 87-97)
CollectedMap == [l \in Locale |-> load_catalog(l).catalog]

\* the map init_catalogs is to store: the catalogs of `locales` found at `path`
\* (lib.rs 54-56)
PathMap(locales) == [l \in locales |-> ParsedCatalog("path", l)]

\* a get that falls back to the de_DE entry for a locale it does not hold
catalogs_get_with_fallback(m, l) ==
    IF l \in DOMAIN m THEN [some |-> TRUE, catalog |-> m[l]]
    ELSE IF "de_DE" \in DOMAIN m THEN [some |-> TRUE, catalog |-> m["de_DE"]]
    ELSE [some |-> FALSE, catalog |-> EmptyCatalog]

\* catalogs.get(self) (lib.rs 99): HashMap::get
catalogs_get(m, l) ==
    IF l \in DOMAIN m THEN [some |-> TRUE, catalog |-> m[l]]
    ELSE [some |-> FALSE, catalog |-> EmptyCatalog]

\* the plural form a catalog selects for a count
PluralForm(n) == IF n = 1 THEN 0 ELSE 1

\* Catalog::gettext / ngettext / pgettext / npgettext on a catalog
\* (lib.rs 130-157): a parsed catalog gives its translation of the message
\* (in the context, in the plural form of the count); the empty catalog gives
\* the source string: the singular, or for a count other than 1 the plural
CatalogLookup(c, call) ==
    LET form == IF call.op \in {"ngettext", "npgettext"} THEN PluralForm(call.n) ELSE 0
        ctx == IF call.op \in {"pgettext", "npgettext"} THEN "context" ELSE ""
    IN IF c = EmptyCatalog THEN Str(EmptyCatalog, "", form)
       ELSE Str(c, ctx, form)

\* catalogs.get(self).expect(..) and the lookup on the catalog: the thread
\* returns the text, or panics when the map has no entry for the locale
Resolve(t, m, call) ==
    LET e == catalogs_get(m, call.locale) IN
    IF e.some
    THEN /\ pc' = [pc EXCEPT ![t] = "idle"]
         /\ ret' = [ret EXCEPT ![t] = CatalogLookup(e.catalog, call)]
    ELSE /\ pc' = [pc EXCEPT ![t] = "panicked"]
         /\ ret' = [ret EXCEPT ![t] = Panic("PanicExpect", call.locale)]

\* a gettext-family call that finds CATALOGS full: get_or_init returns the
\* stored map (lib.rs 86, 99)
Lookup(t, call) ==
    /\ pc[t] = "idle"
    /\ cell.state = "full"
    /\ req' = [req EXCEPT ![t] = call]
    /\ Resolve(t, cell.map, call)
    /\ UNCHANGED <<cell, corrupt, loadIdx, fmtVars, locVars, numVars>>

\* a gettext-family call that finds CATALOGS empty: get_or_init starts the
\* closure in this thread; a call that finds the closure running in another
\* thread waits inside get_or_init until the cell is full or empty again
LookupStartInit(t, call) ==
    /\ pc[t] = "idle"
    /\ cell.state = "empty"
    /\ cell' = RunningCell
    /\ loadIdx' = 1
    /\ pc' = [pc EXCEPT ![t] = "init"]
    /\ req' = [req EXCEPT ![t] = call]
    /\ ret' = [ret EXCEPT ![t] = NoReturn]
    /\ UNCHANGED <<corrupt, fmtVars, locVars, numVars>>

\* the closure loads the next locale's catalog (lib.rs 88-96)
LoadNext(t) ==
    /\ pc[t] = "init"
    /\ loadIdx <= Len(LocaleIter)
    /\ load_catalog(LocaleIter[loadIdx]).ok
    /\ loadIdx' = loadIdx + 1
    /\ UNCHANGED <<cell, corrupt, pc, req, ret, fmtVars, locVars, numVars>>

\* load_catalog returned Err: the closure panics (lib.rs 89-94), the cell is
\* left empty and the panic unwinds the calling thread
LoadPanics(t) ==
    /\ pc[t] = "init"
    /\ loadIdx <= Len(LocaleIter)
    /\ ~load_catalog(LocaleIter[loadIdx]).ok
    /\ cell' = EmptyCell
    /\ loadIdx' = 0
    /\ pc' = [pc EXCEPT ![t] = "panicked"]
    /\ ret' = [ret EXCEPT ![t] = Panic("PanicLoad", LocaleIter[loadIdx])]
    /\ UNCHANGED <<corrupt, req, fmtVars, locVars, numVars>>

\* the closure has collected the map: the cell is full, and the call goes on
\* with it (lib.rs 97-99)
FinishInit(t) ==
    /\ pc[t] = "init"
    /\ loadIdx > Len(LocaleIter)
    /\ cell' = FullCell(CollectedMap, "get_or_init")
    /\ loadIdx' = 0
    /\ Resolve(t, CollectedMap, req[t])
    /\ UNCHANGED <<corrupt, req, fmtVars, locVars, numVars>>

\* init_catalogs (lib.rs 50-58): CATALOGS.set(..), its result not looked at,
\* then Ok(()); a set that finds the closure running waits for it
InitCatalogs(t, call) ==
    /\ pc[t] = "idle"
    /\ cell.state # "running"
    /\ cell' = cell_set(cell, PathMap(call.locales))
    /\ req' = [req EXCEPT ![t] = call]
    /\ ret' = [ret EXCEPT ![t] = OkUnit]
    /\ UNCHANGED <<corrupt, loadIdx, pc, fmtVars, locVars, numVars>>

----------------------------------------------------------------------------
(* Specifications *)

\* no value has been handed to the builder
NoneGiven == [k \in {} |-> StrValue(<<>>)]

InitIdleFormat ==
    /\ tpl = <<>>
    /\ args = NoArgs
    /\ fop = "to_format"
    /\ fout = NoResult
    /\ given = NoneGiven

InitIdleLocale == parseLog = [t \in {} |-> OkLocale("de_DE")]

InitIdleNumber ==
    /\ value = [neg |-> FALSE, mant |-> 0, exp |-> 0]
    /\ precision = 0
    /\ nlocale = "de_DE"
    /\ ndone = FALSE
    /\ nout = <<>>

InitIdleCatalog ==
    /\ cell = EmptyCell
    /\ corrupt = {}
    /\ loadIdx = 0
    /\ pc = [t \in Threads |-> "idle"]
    /\ req = [t \in Threads |-> NoCall]
    /\ ret = [t \in Threads |-> NoReturn]

\* the FormatBuilder: to_format() of any template, then any calls on it
InitFormat ==
    /\ tpl \in Templates
    /\ args = NoArgs
    /\ fop = "to_format"
    /\ fout = NoResult
    /\ given = NoneGiven
    /\ InitIdleLocale
    /\ InitIdleNumber
    /\ InitIdleCatalog

NextFormat ==
    \/ \E k \in Keys, v \in Values : Arg(k, v)
    \/ \E m \in ArgMaps : Args(m)
    \/ Format
    \/ TryFormat

SpecFormat == InitFormat /\ [][NextFormat]_vars

\* the FormatBuilder's arguments: to_format() of a short template, then any
\* calls of arg and args with values of either type, and of format and
\* try_format between them
BuilderTemplates == Concats(Pieces, 1)

InitBuilder ==
    /\ tpl \in BuilderTemplates
    /\ args = NoArgs
    /\ fop = "to_format"
    /\ fout = NoResult
    /\ given = NoneGiven
    /\ InitIdleLocale
    /\ InitIdleNumber
    /\ InitIdleCatalog

NextBuilder ==
    \/ \E k \in Keys, v \in BuilderValues : Arg(k, v)
    \/ \E m \in BuilderArgMaps : Args(m)
    \/ Format
    \/ TryFormat

SpecBuilder == InitBuilder /\ [][NextBuilder]_vars

\* Locale parsing
InitLocale == InitIdleFormat /\ InitIdleLocale /\ InitIdleNumber /\ InitIdleCatalog

NextLocale == \E s \in TagInputs : ParseTag(s)

SpecLocale == InitLocale /\ [][NextLocale]_vars

\* format_f64 on any value, precision and locale
InitNumber ==
    /\ value \in F64Inputs
    /\ precision \in 0..MaxPrecision
    /\ nlocale \in Locale
    /\ ndone = FALSE
    /\ nout = <<>>
    /\ InitIdleFormat
    /\ InitIdleLocale
    /\ InitIdleCatalog

NextNumber == FormatF64

SpecNumber == InitNumber /\ [][NextNumber]_vars

\* the process: CATALOGS empty, the embedded .mo files as the build left them
\* (all readable, or some of them not), threads calling in any order
InitCatalog ==
    /\ cell = EmptyCell
    /\ corrupt \in CorruptSets
    /\ loadIdx = 0
    /\ pc = [t \in Threads |-> "idle"]
    /\ req = [t \in Threads |-> NoCall]
    /\ ret = [t \in Threads |-> NoReturn]
    /\ InitIdleFormat
    /\ InitIdleLocale
    /\ InitIdleNumber

NextCatalog ==
    \E t \in Threads :
        \/ \E call \in LookupCalls : Lookup(t, call)
        \/ \E call \in LookupCalls : LookupStartInit(t, call)
        \/ LoadNext(t)
        \/ LoadPanics(t)
        \/ FinishInit(t)
        \/ \E call \in InitCalls : InitCatalogs(t, call)

SpecCatalog == InitCatalog /\ [][NextCatalog]_vars



----------------------------------------------------------------------------
(* What the claims speak of: placeholders and substitution, stated by      *)
(* position and not by scanning.                                           *)

\* t[i..j] is a placeholder: an opening brace, word characters, a closing brace
IsPlaceholder(t, i, j) ==
    /\ i < j
    /\ t[i] = "{"
    /\ t[j] = "}"
    /\ \A k \in (i + 1)..(j - 1) : t[k] \in WordChars

PlaceholderSpans(t) ==
    {sp \in (1..Len(t)) \X (1..Len(t)) : IsPlaceholder(t, sp[1], sp[2])}

NameOf(t, sp) == SubSeq(t, sp[1] + 1, sp[2] - 1)

\* the placeholders whose name has a stored value
BoundSpans(t, a) == {sp \in PlaceholderSpans(t) : NameOf(t, sp) \in DOMAIN a}

\* the placeholders {name} whose name is not a number and has a stored value
NamedBoundSpans(t, a) ==
    {sp \in BoundSpans(t, a) : Position(NameOf(t, sp)) = "Key"}

\* t with the placeholders of S replaced by their values and all else kept
Substituted(t, a, S) ==
    Flatten([i \in 1..Len(t) |->
        IF \E sp \in S : sp[1] = i
            THEN a[NameOf(t, CHOOSE sp \in S : sp[1] = i)]
        ELSE IF \E sp \in S : sp[1] < i /\ i <= sp[2] THEN <<>>
        ELSE <<t[i]>>])

\* C1 as stated: format returns the template with every bound placeholder
\* substituted and every unbound placeholder left as literal text (a
\* positional placeholder counted as unbound).
C1_FormatSubstitutesBound ==
    fop = "format" =>
        fout = OkText(Substituted(tpl, args, NamedBoundSpans(tpl, args)))

\* C1, amended: format never fails; when every placeholder of the template is
\* a named placeholder with a stored value it returns the fully substituted
\* text, and in every other case (a placeholder without a value, or a
\* positional {} or {N}) it returns the template unchanged, no placeholder
\* substituted.
C1_FormatAllOrNothing ==
    fop = "format" =>
        /\ fout.kind = "Ok"
        /\ fout.val =
              IF NamedBoundSpans(tpl, args) = PlaceholderSpans(tpl)
              THEN Substituted(tpl, args, PlaceholderSpans(tpl))
              ELSE tpl

\* C1: format was called on a template with one bound and one unbound named
\* placeholder, and returned the template as it is.
C1_Witness ==
    /\ fop = "format"
    /\ tpl = <<"{", "a", "}", "-", "{", "b", "}">>
    /\ DOMAIN args = {<<"a">>}
    /\ args[<<"a">>] = <<"X">>
    /\ fout.val = tpl

\* C5 as stated: try_format fails when some placeholder's name has no stored
\* value and returns the fully substituted text when every placeholder's
\* name has one.
C5_TryFormatByStoredNames ==
    fop = "try_format" =>
        IF BoundSpans(tpl, args) = PlaceholderSpans(tpl)
        THEN fout = OkText(Substituted(tpl, args, PlaceholderSpans(tpl)))
        ELSE fout.kind = "Err"

\* C5, amended: try_format returns an error exactly when the template has a
\* placeholder whose name has no stored value or a positional placeholder
\* ({} or {N}, which a map of named values never satisfies: ListRequired);
\* otherwise it returns the fully substituted text.  The error names the
\* cause.
C5_TryFormatStrict ==
    fop = "try_format" =>
        IF NamedBoundSpans(tpl, args) = PlaceholderSpans(tpl)
        THEN fout = OkText(Substituted(tpl, args, PlaceholderSpans(tpl)))
        ELSE /\ fout.kind = "Err"
             /\ fout.err \in {"MissingArg", "ListRequired"}
             /\ fout.err = "MissingArg" =>
                    /\ fout.key \notin DOMAIN args
                    /\ \E sp \in PlaceholderSpans(tpl) : NameOf(tpl, sp) = fout.key

\* C5: try_format was called on a template with one bound and one unbound
\* named placeholder and returned MissingArg for the unbound one.
C5_Witness ==
    /\ fop = "try_format"
    /\ tpl = <<"{", "a", "}", "-", "{", "b", "}">>
    /\ DOMAIN args = {<<"a">>}
    /\ fout = FmtErr("MissingArg", <<"b">>)

\* the short code of each locale's full tag
ShortCode(l) ==
    CASE l = "de_DE" -> "de" [] l = "en_GB" -> "en" [] l = "es_ES" -> "es"
      [] l = "fr_FR" -> "fr" [] l = "it_IT" -> "it" [] l = "pt_PT" -> "pt"
      [] l = "ru_RU" -> "ru"

\* C6: a full tag and its short code parse to the same Locale, tags of
\* different locales parse to different ones, and any other string fails
\* with UnknownLocaleError carrying that string.
C6_ParseLocale ==
    /\ \A s \in DOMAIN parseLog :
          /\ s \in FullTags => parseLog[s] = OkLocale(s)
          /\ \A l \in Locale : s = ShortCode(l) => parseLog[s] = OkLocale(l)
          /\ (s \notin FullTags /\ \A l \in Locale : s # ShortCode(l)) =>
                 /\ parseLog[s].kind = "UnknownLocaleError"
                 /\ parseLog[s].rejected = s
    /\ \A s, t \in DOMAIN parseLog :
          (parseLog[s].kind = "Ok" /\ parseLog[t].kind = "Ok"
             /\ parseLog[s].locale = parseLog[t].locale) =>
                \E l \in Locale : {s, t} \subseteq {l, ShortCode(l)}

\* C6: a full tag, its short code and an unsupported string have been parsed.
C6_Witness ==
    /\ {"fr_FR", "fr", "fr_FR "} \subseteq DOMAIN parseLog
    /\ parseLog["fr_FR"] = parseLog["fr"]
    /\ parseLog["fr"].locale = "fr_FR"
    /\ parseLog["fr_FR "].rejected = "fr_FR "

----------------------------------------------------------------------------
(* What the claims on format_f64 speak of *)

\* mant / 2^exp rounded to p decimals, a half going away from zero
RoundedHalfAway(v, p) ==
    LET scale == Pow(2, v.exp)
        whole == v.mant \div scale
        q == (2 * (v.mant % scale) * Pow(10, p) + scale) \div (2 * scale)
    IN IF q = Pow(10, p) THEN <<whole + 1, 0>> ELSE <<whole, q>>

\* n in decimal, a separator between its groups of three digits
RECURSIVE GroupedBy(_, _)
GroupedBy(n, sep) ==
    IF n < 1000 THEN DigitText(n)
    ELSE GroupedBy(n \div 1000, sep) \o sep \o Padded(n % 1000, 3)

\* the text of a rounded magnitude <<integer part, fraction>> in a locale
LocalizedText(n, p, l) ==
    GroupedBy(n[1], nf_locale(l).separator)
        \o (IF p = 0 THEN <<>> ELSE nf_locale(l).decimal \o Padded(n[2], p))

Unsigned(t) == IF t # <<>> /\ t[1] = "-" THEN Tail(t) ELSE t

HasNonZeroDigit(t) == \E i \in 1..Len(t) : t[i] \in DigitSet \ {"0"}

\* C7 as stated: the text is the value rounded to the precision with halves
\* going away from zero (to the larger magnitude), for either sign.
C7_RoundsHalfAwayFromZero ==
    ndone =>
        LET n == RoundedHalfAway(value, precision)
        IN nout = (IF value.neg /\ n # <<0, 0>> THEN <<"-">> ELSE <<>>)
                     \o LocalizedText(n, precision, nlocale)

\* C8: the text of a negative input (or of -0.0) starts with a minus sign
\* exactly when one of its digits is not zero; the text of any other input
\* has no minus sign.
C8_SignDroppedIffZero ==
    ndone =>
        /\ (nout[1] = "-") <=> (value.neg /\ HasNonZeroDigit(nout))
        /\ \A i \in 2..Len(nout) : nout[i] # "-"

\* C8: -1/256 at precision 2 was rendered as zero, without sign.
C8_Witness ==
    /\ ndone
    /\ value.neg
    /\ value.mant > 0
    /\ value.mant = 1
    /\ value.exp = 8
    /\ precision = 2
    /\ nout = <<"0">> \o nf_locale(nlocale).decimal \o <<"0", "0">>

\* C9: after the sign, the text is the integer part in groups of three
\* joined by the locale's grouping separator, then (for a precision above
\* zero) the locale's decimal separator once and the fraction digits.
C9_LocaleSeparators ==
    ndone =>
        Unsigned(nout) = LocalizedText(Rounded(value, precision), precision, nlocale)

\* C9: -617283.5 at precision 2 in de_DE, whose separators are the source
\* glyphs swapped, came out with two grouping points and one decimal comma.
C9_Witness ==
    /\ ndone
    /\ nlocale = "de_DE"
    /\ value = [neg |-> TRUE, mant |-> 1234567, exp |-> 1]
    /\ precision = 2
    /\ nout = <<"-", "6", "1", "7", ".", "2", "8", "3", ",", "5", "0">>

\* C10: zero renders as "0" at precision 0 and as "0", the locale's decimal
\* separator and exactly p zeros at a precision p >= 1.
C10_ZeroText ==
    (ndone /\ value.mant = 0 /\ ~value.neg) =>
        nout = IF precision = 0 THEN <<"0">>
               ELSE <<"0">> \o nf_locale(nlocale).decimal
                        \o [i \in 1..precision |-> "0"]

\* C10: zero was rendered at the largest precision in a locale whose decimal
\* separator is the point.
C10_Witness ==
    /\ ndone
    /\ value.mant = 0
    /\ ~value.neg
    /\ precision = MaxPrecision
    /\ nlocale = "en_GB"
    /\ Len(nout) = precision + 2
    /\ nout[2] = "."

----------------------------------------------------------------------------
(* What the claims on the catalog registry speak of *)

\* the locale whose catalog has no file and is always there: the source
\* language
FallbackLocale == "de_DE"

\* thread t's last call is a lookup that got past get_or_init
PastGetOrInit(t) ==
    /\ req[t].op \in LookupOps
    /\ pc[t] # "init"
    /\ ret[t].kind # "PanicLoad"

C3_NoLookupPanics ==
    \A t \in Threads :
        req[t].op \in LookupOps => ret[t].kind # "PanicLoad"

\* C3, amended: init_catalogs returns Ok(()) in every case; a catalog that
\* does not parse surfaces as a panic of the gettext-family call whose
\* get_or_init runs the lazy load (so the lazy load never completes in such
\* a build), and a catalog the registry lacks surfaces as a panic of the
\* lookup that asks for it.
C3_FailuresPanicInLookups ==
    /\ \A t \in Threads :
          /\ req[t].op = "init_catalogs" => (ret[t] = OkUnit /\ pc[t] = "idle")
          /\ ret[t].kind = "PanicLoad" =>
                /\ req[t].op \in LookupOps
                /\ ret[t].from.locale \in corrupt
                /\ pc[t] = "panicked"
          /\ ret[t].kind = "PanicExpect" =>
                /\ req[t].op \in LookupOps
                /\ cell.state = "full"
                /\ req[t].locale \notin DOMAIN cell.map
          /\ pc[t] = "panicked" => ret[t].kind \in {"PanicLoad", "PanicExpect"}
    /\ cell.by = "get_or_init" => corrupt = {}

\* C3: the first lookup panicked on the unreadable ru_RU catalog, and the
\* init_catalogs call of the other thread returned Ok(()).
C3_Witness ==
    /\ corrupt = {"ru_RU"}
    /\ req["t1"].op = "gettext"
    /\ ret["t1"] = Panic("PanicLoad", "ru_RU")
    /\ req["t2"].op = "init_catalogs"
    /\ ret["t2"] = OkUnit

\* every text a lookup returned comes from the map the cell holds, and the
\* loading closure runs in one thread at a time, only while the cell is
\* marked running
C4_OneMapForAll ==
    /\ \A t \in Threads :
          ret[t].kind = "Str" =>
              /\ cell.state = "full"
              /\ req[t].locale \in DOMAIN cell.map
              /\ ret[t] = CatalogLookup(cell.map[req[t].locale], req[t])
    /\ Cardinality({t \in Threads : pc[t] = "init"})
          = IF cell.state = "running" THEN 1 ELSE 0

----------------------------------------------------------------------------
(* What the claim on the builder's arguments speaks of *)

\* the builder holds one value for exactly the names a call has named, and
\* it is the string of the value most recently given under that name
StoredIsLastGiven ==
    /\ DOMAIN args = DOMAIN given
    /\ \A k \in DOMAIN args : args[k] = to_string(given[k])

\* what a call that names the keys of m (a map from names to given values)
\* does to the builder: each named key holds the string of its value, every
\* other key keeps what it held, no key appears or disappears otherwise, and
\* the template is the same
CallEffect(m) ==
    /\ DOMAIN args' = DOMAIN args \cup DOMAIN m
    /\ \A k \in DOMAIN m : args'[k] = to_string(m[k])
    /\ \A k \in DOMAIN args \ DOMAIN m : args'[k] = args[k]
    /\ tpl' = tpl

\* every arg and args step has the effect of its call, and no step of the
\* builder changes the template
StepsKeepOthers ==
    /\ \A k \in Keys, v \in BuilderValues :
          Arg(k, v) => CallEffect([x \in {k} |-> v])
    /\ \A m \in BuilderArgMaps : Args(m) => CallEffect(m)
    /\ tpl' = tpl

\* C11: after any sequence of arg and args calls the builder holds, for each
\* name, at most one value, the string of the value given by the most recent
\* call that named it (last write wins); a call leaves the values of the
\* names it does not mention as they were, and the template never changes.
C11_LastWriteWins ==
    /\ []StoredIsLastGiven
    /\ [][StepsKeepOthers]_vars

\* C11: the last call was args with integers for the names b and 0, after a
\* text had been given under a: a kept its text, b and 0 hold the decimal
\* strings of the integers, and the template is the one to_format was given.
C11_Witness ==
    /\ fop = "args"
    /\ tpl = <<"{", "a", "}">>
    /\ DOMAIN args = Keys
    /\ given[<<"a">>] = StrValue(<<"7">>)
    /\ given[<<"b">>] = IntValue(0 - 12)
    /\ given[<<"0">>] = IntValue(7)
    /\ args[<<"a">>] = <<"7">>
    /\ args[<<"b">>] = <<"-", "1", "2">>
    /\ args[<<"0">>] = <<"7">>

====
